---- MODULE Spec2Model ----
(***************************************************************************)
(* Model of commands/run.go of git-lfs: the deferred command registry      *)
(* (commandFuncs, commandMu, RegisterCommand), the Run lifecycle, the      *)
(* dispatch that root.Execute() performs over the assembled tree, and the  *)
(* setupHTTPLogger pre-run hook.                                           *)
(*                                                                         *)
(* Two specifications share the state:                                     *)
(*   SpecRegister  concurrent callers of RegisterCommand (package init)    *)
(*   Spec          one call of Run over a registry those callers left      *)
(* Go finishes every package initialiser before main starts, so Run sees   *)
(* a registry on which no caller is still working.                         *)
(***************************************************************************)
EXTENDS Integers, Sequences, FiniteSets, TLC

\* ------------------------------------------------------------------ bounds
NumCallers == 2
MaxCalls == 2
MaxBuilders == 2
MaxArgs == 3
MaxScript == 3

\* ------------------------------------------------------------- vocabulary
Callers == 1..NumCallers
\* The goroutine that calls Run; it registers too when a customize callback
\* calls RegisterCommand during realization.
Main == NumCallers + 1
Threads == 1..Main

CommandNames == <<"fetch", "clone", "pull", "push", "checkout", "prune", "status", "migrate", "lock", "unlock", "env", "ls">>

\* The fn argument of RegisterCommand: absent, a callback that sets
\* cmd.PreRun = nil, or a callback that itself calls RegisterCommand.
FnKinds == {"nil", "nohook", "nest"}
\* A builder is a func() *cobra.Command.  "skip" is a builder that returns
\* nil; the other kinds are the closures RegisterCommand appends.
BuilderKinds == FnKinds \cup {"skip"}

NilCmd == [name |-> "<nil>", preRun |-> "nil", body |-> "nil", args |-> "nil"]

VARIABLES
  commandFuncs,   \* var commandFuncs []func() *cobra.Command
  commandMu,      \* var commandMu sync.Mutex: TRUE when locked
  regPc,          \* per thread: position inside RegisterCommand
  regReq,         \* per thread: the arguments of the call in progress
  regLocal,       \* per thread: the slice value append() read
  ncalls,         \* per caller: how many calls it issues
  made            \* per caller: how many calls have returned

regVars == <<commandFuncs, commandMu, regPc, regReq, regLocal, ncalls, made>>

\* ------------------------------------------------------- RegisterCommand
NoReq == [name |-> "", fn |-> "nil"]

\* The i-th call of caller c.
CallName(c, i) == CommandNames[(c - 1) * MaxCalls + i]
Request(c, i) == [name |-> CallName(c, i), fn |-> "nil"]

\* The closure of lines 45-51, identified by what it captured.
Closure(req) == [name |-> req.name, kind |-> req.fn]

LockFreeAlways(mu) == TRUE
\* commandMu.Lock() returns only when the mutex is unlocked.
LockFree(mu) == mu = FALSE

UnlockForgotten(mu) == mu
\* commandMu.Unlock(), line 52: the mutex afterwards.
Unlocked(mu) == FALSE

Lock(t) ==
  /\ regPc[t] = "lock"
  /\ LockFree(commandMu)
  /\ commandMu' = TRUE
  /\ regPc' = [regPc EXCEPT ![t] = "read"]
  /\ UNCHANGED <<commandFuncs, regReq, regLocal, ncalls, made>>

\* append(commandFuncs, ...) reads the slice ...
AppendRead(t) ==
  /\ regPc[t] = "read"
  /\ regLocal' = [regLocal EXCEPT ![t] = commandFuncs]
  /\ regPc' = [regPc EXCEPT ![t] = "write"]
  /\ UNCHANGED <<commandFuncs, commandMu, regReq, ncalls, made>>

\* ... and the assignment stores the extended slice.
AppendWrite(t) ==
  /\ regPc[t] = "write"
  /\ commandFuncs' = Append(regLocal[t], Closure(regReq[t]))
  /\ regPc' = [regPc EXCEPT ![t] = "unlock"]
  /\ UNCHANGED <<commandMu, regReq, regLocal, ncalls, made>>

CallerUnlock(c) ==
  /\ regPc[c] = "unlock"
  /\ commandMu' = Unlocked(commandMu)
  /\ made' = [made EXCEPT ![c] = @ + 1]
  /\ IF made[c] + 1 < ncalls[c]
       THEN /\ regPc' = [regPc EXCEPT ![c] = "lock"]
            /\ regReq' = [regReq EXCEPT ![c] = Request(c, made[c] + 2)]
       ELSE /\ regPc' = [regPc EXCEPT ![c] = "idle"]
            /\ regReq' = [regReq EXCEPT ![c] = NoReq]
  /\ UNCHANGED <<commandFuncs, regLocal, ncalls>>

\* ------------------------------------------------------------ Run: state
VARIABLES
  pc,             \* the statement of Run the main goroutine is at
  trace,          \* history: lifecycle steps and execution events, in order
  returns,        \* history: the values Run has returned
  logOutput,      \* destination of the log package
  root,           \* the root *cobra.Command
  rootVersion,    \* var rootVersion bool
  envCanonical,   \* canonicalizeEnvironment() has run
  cfg,            \* the package's shared *config.Configuration
  rangeFuncs,     \* the slice value the range statement evaluated
  idx,            \* the range statement's position
  cur,            \* the result of the builder call of this iteration
  invoked,        \* history: builder calls
  fnCalls,        \* history: customize-callback calls
  argv,           \* os.Args[1:]
  environ,        \* the value of GIT_LOG_STATS
  matched,        \* the node Execute dispatched to
  cmdArgs,        \* its positional arguments
  outcome,        \* how Execute ended
  err,            \* Execute's error is non-nil
  stdout,
  stderr,
  dirs,           \* directories created
  files,          \* files created
  fsCalls,        \* history: file-system calls made by the hook
  fsOk,           \* whether tools.MkdirAll and os.Create succeed when called
  apiClient,      \* the shared API client
  renderErr,      \* the completion renderer called by the node's Run returned an error
  helpCalls,      \* history: the names printHelp was called with
  manPages,       \* var ManPages, the man-page mapping
  pure            \* a single call of a function of the package: input and output

loopVars == <<rangeFuncs, idx, cur, invoked, fnCalls>>
setupVars == <<logOutput, envCanonical, cfg>>
execVars == <<argv, environ, matched, cmdArgs, outcome, err>>
ioVars == <<stdout, stderr, dirs, files, fsCalls, fsOk, apiClient>>
auxVars == <<renderErr, helpCalls, manPages, pure>>
runVars ==
  <<pc, trace, returns, root, rootVersion, loopVars, setupVars, execVars, ioVars, auxVars>>
vars == <<regVars, runVars>>

\* --------------------------------------------------------- command nodes
NewCommandNoHook(name, runFn) ==
  [name |-> name, preRun |-> "nil", body |-> runFn, args |-> "nil"]
\* NewCommand, line 32.
NewCommand(name, runFn) ==
  [name |-> name, preRun |-> "setupHTTPLogger", body |-> runFn, args |-> "nil"]

\* &cobra.Command{Use: "completion ...", ValidArgs, Args, Run}, lines 66-129.
completionCmd ==
  [name |-> "completion", preRun |-> "nil", body |-> "completion", args |-> "completion"]

\* &cobra.Command{Use: "help [command]", Run}, lines 135-157.
helpcmd ==
  [name |-> "help", preRun |-> "nil", body |-> "help", args |-> "nil"]

RootNodeHooked == NewCommand("git-lfs", "gitlfsCommand")
\* root := NewCommand("git-lfs", gitlfsCommand); root.PreRun = nil
RootNode == [NewCommand("git-lfs", "gitlfsCommand") EXCEPT !.preRun = "nil"]

NoRoot ==
  [exists |-> FALSE, node |-> NilCmd, commands |-> <<>>, helpCommand |-> FALSE,
   helpFunc |-> "default", usageFunc |-> "default", versionFlag |-> FALSE]

\* The request a "nest" callback makes.
NestedRequest == [name |-> "track", fn |-> "nil"]

\* The closure of lines 45-51, called: cmd := NewCommand(name, runFn);
\* if fn != nil { fn(cmd) }; return cmd.  A "skip" builder returns nil.
BuilderResult(b) ==
  IF b.kind = "skip" THEN NilCmd
  ELSE LET cmd == NewCommand(b.name, "runFn")
       IN IF b.kind = "nohook" THEN [cmd EXCEPT !.preRun = "nil"] ELSE cmd

AddAlways(commands, cmd) == Append(commands, cmd)
\* if cmd := f(); cmd != nil { root.AddCommand(cmd) }, lines 172-174.
AddIfNotNil(commands, cmd) ==
  IF cmd # NilCmd THEN Append(commands, cmd) ELSE commands

\* The names of nodes in the order of Go's string comparison.
SortedNames ==
  <<"checkout", "clone", "completion", "env", "fetch", "git-lfs", "help", "lock", "ls",
    "migrate", "prune", "pull", "push", "status", "track", "unlock">>
NameRank(name) == CHOOSE i \in DOMAIN SortedNames : SortedNames[i] = name

\* (*Command).Commands() sorts the children by name, in place, the first time
\* it is called after a child is added; the children have distinct names.
SortByName(commands) ==
  [i \in DOMAIN commands |->
     CHOOSE c \in {commands[k] : k \in DOMAIN commands} :
       Cardinality({k \in DOMAIN commands :
                      NameRank(commands[k].name) < NameRank(c.name)}) = i - 1]

\* The root's children after the Run of completionCmd: the bash renderer
\* walks the tree with Commands(), the other renderers do not walk it.
childrenAfterCompletion(commands, args) ==
  IF Len(args) > 0 /\ args[1] = "bash" THEN SortByName(commands) ELSE commands

\* ---------------------------------------------------------- Help Resolver
\* The generated ManPages table (another file of the package): command name
\* to text, a string modelled as its sequence of tokens, " " and "\n" being
\* white space.
ManPages ==
  [n \in {"git-lfs", "fetch", "config", "faq", "completion"} |->
     IF n = "git-lfs" THEN <<"\n", " ", "man", " ", n, "\n">> ELSE <<" ", "man", n, " ">>]

IsSpace(t) == t \in {" ", "\n"}

RECURSIVE TrimLeft(_)
TrimLeft(s) == IF s # <<>> /\ IsSpace(Head(s)) THEN TrimLeft(Tail(s)) ELSE s
RECURSIVE TrimRight(_)
TrimRight(s) ==
  IF s # <<>> /\ IsSpace(s[Len(s)]) THEN TrimRight(SubSeq(s, 1, Len(s) - 1)) ELSE s
\* strings.TrimSpace
TrimSpace(s) == TrimRight(TrimLeft(s))

printHelpNoAlias(commandName) ==
  IF commandName \in DOMAIN manPages
    THEN TrimSpace(manPages[commandName])
    ELSE <<"Sorry, no usage text found for", commandName>>
\* printHelp, lines 206-215: the line it prints.
printHelp(commandName) ==
  LET name == IF commandName = "--help" THEN "git-lfs" ELSE commandName
  IN IF name \in DOMAIN manPages
       THEN TrimSpace(manPages[name])
       ELSE <<"Sorry, no usage text found for", name>>

\* helpCommand, lines 193-199: the name it passes to printHelp ...
HelpTopic(args) == IF Len(args) = 0 THEN "git-lfs" ELSE args[1]
\* ... and the line printed.
helpCommand(args) == printHelp(HelpTopic(args))

\* usageCommand, lines 201-204.
usageCommand(cmd) == printHelp(cmd.name)

\* versionCommand (another file of the package) prints one line.
VersionLine == <<"git-lfs/version">>

gitlfsCommandAlwaysUsage(version) == <<VersionLine, usageCommand(RootNode)>>
\* gitlfsCommand, lines 186-191: the lines it prints.
gitlfsCommand(version) ==
  IF ~version THEN <<VersionLine, usageCommand(RootNode)>> ELSE <<VersionLine>>

\* ---------------------------------------------------- Completion Generator
ValidArgs == {"bash", "zsh", "fish", "powershell"}

\* What cobra's native renderers write, as a sequence of script tokens.
\* cobra's zsh script assigns requestComp once.
OldRequestComp == "requestComp=\"${words[1]}"
NewRequestComp == "requestComp=\"git-${words[1]#*git-}"

NativeScript(shell) ==
  IF shell = "zsh"
    THEN <<"#compdef", OldRequestComp, "eval">>
    ELSE <<"# completion for", shell>>

\* What a renderer has written when it returns: the script, or nothing when it
\* returns an error.
Rendered(shell, failed) == IF failed THEN <<>> ELSE NativeScript(shell)

RECURSIVE ReplaceN(_, _, _, _)
\* bytes.Replace(s, old, new, n) over tokens.
ReplaceN(s, old, new, n) ==
  IF s = <<>> \/ n = 0 THEN s
  ELSE IF Head(s) = old THEN <<new>> \o ReplaceN(Tail(s), old, new, n - 1)
  ELSE <<Head(s)>> \o ReplaceN(Tail(s), old, new, n)

BashTrailer == "_git_lfs() { __start_git-lfs; }"

zshRewriteAll(script) == ReplaceN(script, OldRequestComp, NewRequestComp, -1)
\* The post-processing of the zsh script, line 121.
zshRewrite(script) == ReplaceN(script, OldRequestComp, NewRequestComp, 1)

\* The Run function of completionCmd, lines 111-128: the lines written.  The
\* error each renderer returns is discarded (lines 115, 120, 124, 126).
completionRun(args, failed) ==
  IF Len(args) = 0 THEN <<<<"panic: index out of range">>>>
  ELSE IF args[1] = "bash" THEN <<Rendered("bash", failed) \o <<BashTrailer>>>>
  ELSE IF args[1] = "zsh" THEN <<zshRewrite(Rendered("zsh", failed))>>
  ELSE IF args[1] = "fish" THEN <<Rendered("fish", failed)>>
  ELSE IF args[1] = "powershell" THEN <<Rendered("powershell", failed)>>
  ELSE <<>>

\* A line of standard output that is (part of) a completion script.
IsScriptLine(line) ==
  \E sh \in ValidArgs : \E i \in 1..Len(line) : line[i] \in {NativeScript(sh)[1], BashTrailer}

\* -------------------------------------------------------- Diagnostics Hook
NoFile == <<>>
\* cfg.LocalLogDir() of the shared configuration.
LocalLogDir == <<".git", "lfs", "logs">>
\* filepath.Join
Join(dir, name) == Append(dir, name)
\* fmt.Sprintf("http-%d.log", time.Now().Unix())
LogFileName(now) == <<"http-", now, ".log">>
HTTPStatsWarning == <<"Error logging HTTP stats:", "err">>
Times == {1700000000, 1700000001}

NoEffect == [calls |-> <<>>, dirs |-> {}, files |-> {}, warn |-> <<>>, sink |-> NoFile]

setupHTTPLoggerNoSink(env, mkdirOk, createOk, now) ==
  LET logBase == Join(LocalLogDir, "http")
      path == Join(logBase, LogFileName(now))
  IN IF Len(env) < 1 THEN NoEffect
     ELSE IF ~mkdirOk
       THEN [NoEffect EXCEPT !.calls = <<<<"MkdirAll", logBase>>>>,
                             !.warn = <<HTTPStatsWarning>>]
     ELSE IF ~createOk
       THEN [NoEffect EXCEPT !.calls = <<<<"MkdirAll", logBase>>, <<"Create", path>>>>,
                             !.dirs = {logBase}, !.warn = <<HTTPStatsWarning>>]
     ELSE [NoEffect EXCEPT !.calls = <<<<"MkdirAll", logBase>>, <<"Create", path>>>>,
                           !.dirs = {logBase}, !.files = {path}]

setupHTTPLoggerNoToggle(env, mkdirOk, createOk, now) ==
  LET logBase == Join(LocalLogDir, "http")
      path == Join(logBase, LogFileName(now))
  IN IF ~mkdirOk
       THEN [NoEffect EXCEPT !.calls = <<<<"MkdirAll", logBase>>>>,
                             !.warn = <<HTTPStatsWarning>>]
     ELSE IF ~createOk
       THEN [NoEffect EXCEPT !.calls = <<<<"MkdirAll", logBase>>, <<"Create", path>>>>,
                             !.dirs = {logBase}, !.warn = <<HTTPStatsWarning>>]
     ELSE [NoEffect EXCEPT !.calls = <<<<"MkdirAll", logBase>>, <<"Create", path>>>>,
                           !.dirs = {logBase}, !.files = {path}, !.sink = path]

setupHTTPLoggerNoReturn(env, mkdirOk, createOk, now) ==
  LET logBase == Join(LocalLogDir, "http")
      path == Join(logBase, LogFileName(now))
      created == IF mkdirOk THEN {logBase} ELSE {}
      warned == IF mkdirOk THEN <<>> ELSE <<HTTPStatsWarning>>
  IN IF Len(env) < 1 THEN NoEffect
     ELSE IF ~createOk
       THEN [NoEffect EXCEPT !.calls = <<<<"MkdirAll", logBase>>, <<"Create", path>>>>,
                             !.dirs = created, !.warn = Append(warned, HTTPStatsWarning)]
     ELSE [NoEffect EXCEPT !.calls = <<<<"MkdirAll", logBase>>, <<"Create", path>>>>,
                           !.dirs = created, !.warn = warned,
                           !.files = {path}, !.sink = path]

\* setupHTTPLogger, lines 217-235: what one run of the hook does, given the
\* value of GIT_LOG_STATS, whether tools.MkdirAll and os.Create succeed, and
\* the clock.
setupHTTPLogger(env, mkdirOk, createOk, now) ==
  LET logBase == Join(LocalLogDir, "http")
      path == Join(logBase, LogFileName(now))
  IN IF Len(env) < 1 THEN NoEffect
     ELSE IF ~mkdirOk
       THEN [NoEffect EXCEPT !.calls = <<<<"MkdirAll", logBase>>>>,
                             !.warn = <<HTTPStatsWarning>>]
     ELSE IF ~createOk
       THEN [NoEffect EXCEPT !.calls = <<<<"MkdirAll", logBase>>, <<"Create", path>>>>,
                             !.dirs = {logBase}, !.warn = <<HTTPStatsWarning>>]
     ELSE [NoEffect EXCEPT !.calls = <<<<"MkdirAll", logBase>>, <<"Create", path>>>>,
                           !.dirs = {logBase}, !.files = {path}, !.sink = path]

\* ------------------------------------------------- dispatch (root.Execute)
Flags == {"--help", "--version", "--bogus"}
\* The first word of a command line: a fixed node, a registered name, or a
\* name of no node.
FirstWords == {"completion", "help", "cobol", CommandNames[1]}
\* The word after it: a shell, a help topic, or neither.
ArgWords ==
  {"bash", "zsh", "fish", "powershell", "cobol", "config", "faq", "completion",
   CommandNames[1]}
\* Any further word.
MoreWords == {"zsh", "cobol"}
Words == FirstWords \cup ArgWords \cup MoreWords
WordsAt(i) == IF i = 1 THEN FirstWords ELSE IF i = 2 THEN ArgWords ELSE MoreWords
EnvValues == {"", "1"}

SeqsUpTo(S, n) == UNION {[1..k -> S] : k \in 0..n}
\* Command lines: words first, then flags.
WordSeqs ==
  UNION {{w \in [1..k -> Words] : \A i \in 1..k : w[i] \in WordsAt(i)} : k \in 0..MaxArgs}
Argvs ==
  {w \o f : <<w, f>> \in
     {x \in WordSeqs \X SeqsUpTo(Flags, MaxArgs) : Len(x[1]) + Len(x[2]) <= MaxArgs}}

IsWord(t) == t \notin Flags
StripFlags(args) == SelectSeq(args, IsWord)
FlagsOf(args) == {args[i] : i \in DOMAIN args} \cap Flags

\* The position of the first child named name, or 0.
FirstNamed(commands, name) ==
  LET hits == {i \in DOMAIN commands : commands[i].name = name}
  IN IF hits = {} THEN 0 ELSE CHOOSE i \in hits : \A j \in hits : i <= j

\* (*Command).Find on the root: the first word selects a child; with no such
\* child the root is its own match, and words it cannot take are an
\* "unknown command" error (the root has subcommands and no Args).
Find(commands, args) ==
  LET words == StripFlags(args)
      k == IF words = <<>> THEN 0 ELSE FirstNamed(commands, words[1])
  IN IF words = <<>> THEN [cmd |-> RootNode, args |-> <<>>, err |-> FALSE]
     ELSE IF k = 0 THEN [cmd |-> RootNode, args |-> words, err |-> TRUE]
     ELSE [cmd |-> commands[k], args |-> Tail(words), err |-> FALSE]

MinimumNArgs(n, args) == Len(args) >= n
ExactArgs(n, args) == Len(args) = n
OnlyValidArgs(args) == \A i \in DOMAIN args : args[i] \in ValidArgs

\* (*Command).ValidateArgs: Args of completionCmd is
\* cobra.MatchAll(cobra.ExactArgs(1), cobra.OnlyValidArgs), line 110; a nil
\* Args accepts anything.
ValidateArgs(cmd, args) ==
  IF cmd.args = "completion" THEN ExactArgs(1, args) /\ OnlyValidArgs(args) ELSE TRUE

\* The flags cmd accepts: help everywhere, version on the root only
\* (root.Flags(), line 165).
DefinedFlags(r, cmd) ==
  {"--help"} \cup (IF cmd = RootNode /\ r.versionFlag THEN {"--version"} ELSE {})

\* Flag parsing takes the arguments in order and stores each flag as it meets
\* it, stopping at the first flag that is not defined: the flags stored.
FlagsStored(defined, a) ==
  {a[i] : i \in {k \in DOMAIN a :
                   /\ a[k] \in defined
                   /\ \A j \in 1..(k - 1) : a[j] \in Flags => a[j] \in defined}}

\* What Execute does with a command line, up to the pre-run hook.
Dispatch(r, a) ==
  LET f == Find(r.commands, a)
      defined == DefinedFlags(r, f.cmd)
      result(o) == [outcome |-> o, cmd |-> f.cmd, args |-> f.args]
  IN IF f.err THEN result("unknown-command")
     ELSE IF ~(FlagsOf(a) \subseteq defined) THEN result("flag-error")
     ELSE IF "--help" \in FlagsOf(a) THEN result("help")
     ELSE IF ~ValidateArgs(f.cmd, f.args) THEN result("args-error")
     ELSE result("run")

helpRunNoAlias(commands, args) ==
  IF Find(commands, args).err
    THEN [println |-> <<<<"Unknown help topic", args>>>>,
          out |-> <<usageCommand(RootNode)>>, resolved |-> <<"git-lfs">>]
    ELSE [println |-> <<>>, out |-> <<helpCommand(args)>>,
          resolved |-> <<HelpTopic(args)>>]
\* The Run function of helpcmd, lines 141-156: lines printed with c.Println
\* and lines printed by the Help Resolver.
helpRun(commands, args) ==
  LET f == Find(commands, args)
      e == IF f.err /\ (args[1] = "config" \/ args[1] = "faq")
             THEN Find(commands, <<"help">>).err
             ELSE f.err
  IN IF e THEN [println |-> <<<<"Unknown help topic", args>>>>,
                out |-> <<usageCommand(RootNode)>>, resolved |-> <<"git-lfs">>]
     ELSE [println |-> <<>>, out |-> <<helpCommand(args)>>,
           resolved |-> <<HelpTopic(args)>>]

runErrorUnknownTopic(node, args, failed) ==
  node.body = "help" /\ helpRun(root.commands, args).println # <<>>
\* What a node's Run reports to Execute: the nodes are built with Run, never
\* RunE (lines 32, 111, 141), so a body has no error to return.
runError(node, args, failed) == FALSE

\* ------------------------------------------------------------ Run: steps
Lifecycle ==
  <<"configure-output", "build-root-and-fixed-nodes", "set-global-flags",
    "canonicalize-environment", "construct-shared-config",
    "realize-deferred-registry", "execute", "shutdown-shared-resources", "return">>

NextStepConfigFirst(p) ==
  CASE p = "configure-output" -> "build-root-and-fixed-nodes"
    [] p = "build-root-and-fixed-nodes" -> "set-global-flags"
    [] p = "set-global-flags" -> "construct-shared-config"
    [] p = "construct-shared-config" -> "canonicalize-environment"
    [] p = "canonicalize-environment" -> "realize-deferred-registry"
    [] p = "realize-deferred-registry" -> "execute"
    [] p = "execute" -> "shutdown-shared-resources"
    [] p = "shutdown-shared-resources" -> "return"
    [] p = "return" -> "done"

NextStepCloseFirst(p) ==
  CASE p = "configure-output" -> "build-root-and-fixed-nodes"
    [] p = "build-root-and-fixed-nodes" -> "set-global-flags"
    [] p = "set-global-flags" -> "canonicalize-environment"
    [] p = "canonicalize-environment" -> "construct-shared-config"
    [] p = "construct-shared-config" -> "realize-deferred-registry"
    [] p = "realize-deferred-registry" -> "shutdown-shared-resources"
    [] p = "shutdown-shared-resources" -> "execute"
    [] p = "execute" -> "return"
    [] p = "return" -> "done"

\* The statement order of Run, lines 60-183.
NextStep(p) ==
  CASE p = "configure-output" -> "build-root-and-fixed-nodes"
    [] p = "build-root-and-fixed-nodes" -> "set-global-flags"
    [] p = "set-global-flags" -> "canonicalize-environment"
    [] p = "canonicalize-environment" -> "construct-shared-config"
    [] p = "construct-shared-config" -> "realize-deferred-registry"
    [] p = "realize-deferred-registry" -> "execute"
    [] p = "execute" -> "shutdown-shared-resources"
    [] p = "shutdown-shared-resources" -> "return"
    [] p = "return" -> "done"

\* log.SetOutput(ErrorWriter); tr.InitializeLocale()
ConfigureOutput ==
  /\ pc = "configure-output"
  /\ logOutput' = "ErrorWriter"
  /\ trace' = Append(trace, pc)
  /\ pc' = NextStep(pc)
  /\ UNCHANGED <<regVars, auxVars, returns, root, rootVersion, loopVars, envCanonical, cfg,
                 execVars, ioVars>>

\* Lines 63-163: the root without a pre-run hook, the completion node added,
\* the help node set as help command, help and usage functions replaced.
BuildRootAndFixedNodes ==
  /\ pc = "build-root-and-fixed-nodes"
  /\ root' = [exists |-> TRUE, node |-> RootNode, commands |-> <<completionCmd>>,
              helpCommand |-> TRUE, helpFunc |-> "helpCommand",
              usageFunc |-> "usageCommand", versionFlag |-> FALSE]
  /\ trace' = Append(trace, pc)
  /\ pc' = NextStep(pc)
  /\ UNCHANGED <<regVars, auxVars, returns, rootVersion, loopVars, setupVars, execVars, ioVars>>

\* root.Flags().BoolVarP(&rootVersion, "version", "v", false, "")
SetGlobalFlags ==
  /\ pc = "set-global-flags"
  /\ root' = [root EXCEPT !.versionFlag = TRUE]
  /\ rootVersion' = FALSE
  /\ trace' = Append(trace, pc)
  /\ pc' = NextStep(pc)
  /\ UNCHANGED <<regVars, auxVars, returns, loopVars, setupVars, execVars, ioVars>>

\* canonicalizeEnvironment()
CanonicalizeEnvironment ==
  /\ pc = "canonicalize-environment"
  /\ envCanonical' = TRUE
  /\ trace' = Append(trace, pc)
  /\ pc' = NextStep(pc)
  /\ UNCHANGED <<regVars, auxVars, returns, root, rootVersion, loopVars, logOutput, cfg,
                 execVars, ioVars>>

\* cfg = config.New(); the configuration reads the environment as it is now.
ConstructSharedConfig ==
  /\ pc = "construct-shared-config"
  /\ cfg' = [exists |-> TRUE, envCanonical |-> envCanonical]
  /\ trace' = Append(trace, pc)
  /\ pc' = NextStep(pc)
  /\ UNCHANGED <<regVars, auxVars, returns, root, rootVersion, loopVars, logOutput, envCanonical,
                 execVars, ioVars>>

\* for _, f := range commandFuncs: the range expression is evaluated once.
RangeStart ==
  /\ pc = "realize-deferred-registry"
  /\ rangeFuncs' = commandFuncs
  /\ idx' = 1
  /\ trace' = Append(trace, pc)
  /\ pc' = "loop"
  /\ UNCHANGED <<regVars, auxVars, returns, root, rootVersion, cur, invoked, fnCalls, setupVars,
                 execVars, ioVars>>

\* cmd := f(): the builder runs, and with it the customize callback; a
\* "nest" callback enters RegisterCommand on this goroutine.
Invoke ==
  /\ pc = "loop"
  /\ idx <= Len(rangeFuncs)
  /\ LET b == rangeFuncs[idx] IN
       /\ cur' = BuilderResult(b)
       /\ invoked' = Append(invoked, [name |-> b.name, cfg |-> cfg.exists])
       /\ fnCalls' = IF b.kind \in {"nohook", "nest"}
                       THEN Append(fnCalls, [name |-> b.name,
                                             preRun |-> NewCommand(b.name, "runFn").preRun,
                                             attached |-> FirstNamed(root.commands, b.name) # 0])
                       ELSE fnCalls
       /\ IF b.kind = "nest"
            THEN /\ regPc' = [regPc EXCEPT ![Main] = "lock"]
                 /\ regReq' = [regReq EXCEPT ![Main] = NestedRequest]
            ELSE UNCHANGED <<regPc, regReq>>
  /\ pc' = "attach"
  /\ UNCHANGED <<auxVars, commandFuncs, commandMu, regLocal, ncalls, made, trace, returns, root,
                 rootVersion, rangeFuncs, idx, setupVars, execVars, ioVars>>

\* RegisterCommand on the main goroutine, called from a customize callback.
MainRegister ==
  /\ pc = "attach"
  /\ \/ Lock(Main)
     \/ AppendRead(Main)
     \/ AppendWrite(Main)
     \/ /\ regPc[Main] = "unlock"
        /\ commandMu' = Unlocked(commandMu)
        /\ regPc' = [regPc EXCEPT ![Main] = "idle"]
        /\ regReq' = [regReq EXCEPT ![Main] = NoReq]
        /\ UNCHANGED <<commandFuncs, regLocal, ncalls, made>>
  /\ UNCHANGED runVars

\* if cmd != nil { root.AddCommand(cmd) }, once the builder has returned.
Attach ==
  /\ pc = "attach"
  /\ regPc[Main] = "idle"
  /\ root' = [root EXCEPT !.commands = AddIfNotNil(@, cur)]
  /\ idx' = idx + 1
  /\ pc' = "loop"
  /\ UNCHANGED <<regVars, auxVars, trace, returns, rootVersion, rangeFuncs, cur, invoked, fnCalls,
                 setupVars, execVars, ioVars>>

LoopEnd ==
  /\ pc = "loop"
  /\ idx > Len(rangeFuncs)
  /\ pc' = NextStep("realize-deferred-registry")
  /\ UNCHANGED <<regVars, auxVars, trace, returns, root, rootVersion, loopVars, setupVars,
                 execVars, ioVars>>

ExitCodeOne(e) == IF e THEN 1 ELSE 0
\* if err != nil { return 127 }; return 0, lines 180-183.
ExitCode(e) == IF e THEN 127 ELSE 0

\* err := root.Execute(), up to the matched node's pre-run hook.  The command
\* line and the environment are the process's inputs.
Execute ==
  /\ pc = "execute"
  /\ \E a \in Argvs, e \in EnvValues :
       LET r == IF root.helpCommand THEN [root EXCEPT !.commands = Append(@, helpcmd)]
                ELSE root
           d == Dispatch(r, a)
       IN /\ root' = r
          /\ argv' = a
          /\ environ' = e
          /\ matched' = d.cmd
          /\ cmdArgs' = d.args
          /\ outcome' = d.outcome
          /\ err' = (d.outcome \in {"unknown-command", "flag-error", "args-error"})
          /\ rootVersion' = IF /\ d.outcome # "unknown-command"
                                 /\ "--version" \in FlagsStored(DefinedFlags(r, d.cmd), a)
                              THEN TRUE ELSE rootVersion
          /\ stdout' = CASE d.outcome = "help" -> Append(stdout, helpCommand(a))
                         [] d.outcome \in {"flag-error", "args-error"} ->
                              Append(stdout, usageCommand(d.cmd))
                         [] OTHER -> stdout
          /\ stderr' = IF d.outcome \in {"unknown-command", "flag-error", "args-error"}
                         THEN Append(stderr, <<"Error:", d.outcome>>) ELSE stderr
          /\ helpCalls' = CASE d.outcome = "help" -> Append(helpCalls, HelpTopic(a))
                            [] d.outcome \in {"flag-error", "args-error"} ->
                                 Append(helpCalls, d.cmd.name)
                            [] OTHER -> helpCalls
          /\ pc' = IF d.outcome = "run" THEN "prerun" ELSE NextStep("execute")
  /\ trace' = Append(trace, pc)
  /\ UNCHANGED <<regVars, renderErr, manPages, pure, returns, loopVars, setupVars, dirs, files, fsCalls, fsOk, apiClient>>

\* The matched node's PreRun, when it has one.
PreRun ==
  /\ pc = "prerun"
  /\ IF matched.preRun = "setupHTTPLogger"
       THEN \E mkdirOk \in BOOLEAN, createOk \in BOOLEAN, now \in Times :
              LET eff == setupHTTPLogger(environ, mkdirOk, createOk, now) IN
                /\ fsOk' = [mkdir |-> mkdirOk, create |-> createOk]
                /\ fsCalls' = fsCalls \o eff.calls
                /\ dirs' = dirs \cup eff.dirs
                /\ files' = files \cup eff.files
                /\ stderr' = stderr \o eff.warn
                /\ apiClient' = IF eff.sink # NoFile
                                  THEN [apiClient EXCEPT !.stats = eff.sink]
                                  ELSE apiClient
                /\ trace' = Append(trace, "hook")
       ELSE UNCHANGED <<fsOk, fsCalls, dirs, files, stderr, apiClient, trace>>
  /\ pc' = "body"
  /\ UNCHANGED <<regVars, auxVars, returns, root, rootVersion, loopVars, setupVars, execVars, stdout>>

\* The matched node's Run.
Body ==
  /\ pc = "body"
  /\ \E failed \in (IF matched.body = "completion" THEN BOOLEAN ELSE {FALSE}) :
       /\ renderErr' = failed
       /\ err' = runError(matched, cmdArgs, failed)
       /\ CASE matched.body = "gitlfsCommand" ->
                 /\ stdout' = stdout \o gitlfsCommand(rootVersion)
                 /\ stderr' = stderr
                 /\ helpCalls' = IF rootVersion THEN helpCalls
                                   ELSE Append(helpCalls, RootNode.name)
            [] matched.body = "completion" ->
                 /\ stdout' = stdout \o completionRun(cmdArgs, failed)
                 /\ stderr' = stderr
                 /\ helpCalls' = helpCalls
            [] matched.body = "help" ->
                 LET h == helpRun(root.commands, cmdArgs) IN
                   /\ stdout' = stdout \o h.out
                   /\ stderr' = stderr \o h.println
                   /\ helpCalls' = helpCalls \o h.resolved
            [] OTHER -> UNCHANGED <<stdout, stderr, helpCalls>>
  /\ root' = IF matched.body = "completion"
               THEN [root EXCEPT !.commands = childrenAfterCompletion(@, cmdArgs)]
               ELSE root
  /\ trace' = Append(trace, "body")
  /\ pc' = NextStep("execute")
  /\ UNCHANGED <<regVars, manPages, pure, returns, rootVersion, loopVars, setupVars,
                 argv, environ, matched, cmdArgs, outcome, dirs, files, fsCalls, fsOk,
                 apiClient>>

\* closeAPIClient()
Shutdown ==
  /\ pc = "shutdown-shared-resources"
  /\ apiClient' = [apiClient EXCEPT !.closed = @ + 1]
  /\ trace' = Append(trace, pc)
  /\ pc' = NextStep(pc)
  /\ UNCHANGED <<regVars, auxVars, returns, root, rootVersion, loopVars, setupVars, execVars,
                 stdout, stderr, dirs, files, fsCalls, fsOk>>

Return ==
  /\ pc = "return"
  /\ returns' = Append(returns, ExitCode(err))
  /\ trace' = Append(trace, pc)
  /\ pc' = NextStep(pc)
  /\ UNCHANGED <<regVars, auxVars, root, rootVersion, loopVars, setupVars, execVars, ioVars>>

\* -------------------------------------------------------- specifications
\* No single function call is under way.
NoCall == [op |-> "none", script |-> <<>>, name |-> "", out |-> <<>>, done |-> FALSE]

RunFieldsInit ==
  /\ pc = "configure-output"
  /\ trace = <<>>
  /\ returns = <<>>
  /\ logOutput = "os.Stderr"
  /\ root = NoRoot
  /\ rootVersion = FALSE
  /\ envCanonical = FALSE
  /\ cfg = [exists |-> FALSE, envCanonical |-> FALSE]
  /\ rangeFuncs = <<>>
  /\ idx = 0
  /\ cur = NilCmd
  /\ invoked = <<>>
  /\ fnCalls = <<>>
  /\ argv = <<>>
  /\ environ = ""
  /\ matched = NilCmd
  /\ cmdArgs = <<>>
  /\ outcome = "none"
  /\ err = FALSE
  /\ stdout = <<>>
  /\ stderr = <<>>
  /\ dirs = {}
  /\ files = {}
  /\ fsCalls = <<>>
  /\ fsOk = [mkdir |-> TRUE, create |-> TRUE]
  /\ apiClient = [stats |-> NoFile, closed |-> 0]
  /\ renderErr = FALSE
  /\ helpCalls = <<>>
  /\ manPages = ManPages

RunInit == RunFieldsInit /\ pure = NoCall

\* The registries Run can find: up to MaxBuilders builders, each a closure of
\* RegisterCommand or a builder that returns nil.
Registries ==
  UNION {{[i \in 1..n |-> [name |-> CommandNames[i], kind |-> k[i]]] :
            k \in [1..n -> BuilderKinds]} : n \in 0..MaxBuilders}

Init ==
  /\ commandFuncs \in Registries
  /\ commandMu = FALSE
  /\ regPc = [t \in Threads |-> "idle"]
  /\ regReq = [t \in Threads |-> NoReq]
  /\ regLocal = [t \in Threads |-> <<>>]
  /\ ncalls = [c \in Callers |-> 0]
  /\ made = [c \in Callers |-> 0]
  /\ RunInit

Next ==
  \/ ConfigureOutput
  \/ BuildRootAndFixedNodes
  \/ SetGlobalFlags
  \/ CanonicalizeEnvironment
  \/ ConstructSharedConfig
  \/ RangeStart
  \/ Invoke
  \/ MainRegister
  \/ Attach
  \/ LoopEnd
  \/ Execute
  \/ PreRun
  \/ Body
  \/ Shutdown
  \/ Return

Spec == Init /\ [][Next]_vars

\* Run from its first statement to the execute step.  Run is the one
\* goroutine of the program: it takes its next step whenever it has one.
NextRealize ==
  \/ ConfigureOutput
  \/ BuildRootAndFixedNodes
  \/ SetGlobalFlags
  \/ CanonicalizeEnvironment
  \/ ConstructSharedConfig
  \/ RangeStart
  \/ Invoke
  \/ MainRegister
  \/ Attach
  \/ LoopEnd

SpecFair == Init /\ [][NextRealize]_vars /\ WF_vars(NextRealize)

\* Package initialisation: every caller issues its calls of RegisterCommand,
\* the callers interleaving freely.
InitRegister ==
  /\ commandFuncs = <<>>
  /\ commandMu = FALSE
  /\ ncalls \in [Callers -> 0..MaxCalls]
  /\ made = [c \in Callers |-> 0]
  /\ regPc = [t \in Threads |-> IF t \in Callers /\ ncalls[t] > 0 THEN "lock" ELSE "idle"]
  /\ regReq = [t \in Threads |->
                 IF t \in Callers /\ ncalls[t] > 0 THEN Request(t, 1) ELSE NoReq]
  /\ regLocal = [t \in Threads |-> <<>>]
  /\ RunInit

RegisterCommand(c) ==
  /\ \/ Lock(c)
     \/ AppendRead(c)
     \/ AppendWrite(c)
     \/ CallerUnlock(c)
  /\ UNCHANGED runVars

NextRegister == \E c \in Callers : RegisterCommand(c)

SpecRegister == InitRegister /\ [][NextRegister]_vars

\* Single calls of the package's functions, on every input of a bounded set.
ScriptTokens == {OldRequestComp, NewRequestComp, "#compdef", "eval"}
\* The scripts a zsh renderer may hand to the post-processing.
Scripts == SeqsUpTo(ScriptTokens, MaxScript)
\* The names printHelp may be called with.
HelpNames ==
  {"--help", "git-lfs", "fetch", "config", "faq", "completion", "cobol", "track"}

PureCalls ==
  {[NoCall EXCEPT !.op = "zsh", !.script = s] : s \in Scripts}
    \cup {[NoCall EXCEPT !.op = "printHelp", !.name = n] : n \in HelpNames}

InitPure ==
  /\ commandFuncs = <<>>
  /\ commandMu = FALSE
  /\ regPc = [t \in Threads |-> "idle"]
  /\ regReq = [t \in Threads |-> NoReq]
  /\ regLocal = [t \in Threads |-> <<>>]
  /\ ncalls = [c \in Callers |-> 0]
  /\ made = [c \in Callers |-> 0]
  /\ RunFieldsInit
  /\ pure \in PureCalls

notPure ==
  <<regVars, pc, trace, returns, root, rootVersion, loopVars, setupVars, execVars, ioVars,
    renderErr, helpCalls, manPages>>

\* bytes.Replace of line 121 applied to a rendered script.
CallZshRewrite ==
  /\ pure.op = "zsh"
  /\ ~pure.done
  /\ pure' = [pure EXCEPT !.out = zshRewrite(pure.script), !.done = TRUE]
  /\ UNCHANGED notPure

\* printHelp(name), lines 206-215: it reads ManPages and writes one line.
CallPrintHelp ==
  /\ pure.op = "printHelp"
  /\ ~pure.done
  /\ pure' = [pure EXCEPT !.out = printHelp(pure.name), !.done = TRUE]
  /\ UNCHANGED notPure

NextPure == CallZshRewrite \/ CallPrintHelp

SpecPure == InitPure /\ [][NextPure]_vars

\* ================================================================ claims
NameSeq(s) == [i \in DOMAIN s |-> s[i].name]
NotSkip(b) == b.kind # "skip"
IsFixedNode(n) == n \in {completionCmd, helpcmd}
IsRealizedNode(n) == ~IsFixedNode(n)
\* The children realization attached to the root.
Realized == SelectSeq(root.commands, IsRealizedNode)
Has(seq, x) == \E i \in DOMAIN seq : seq[i] = x
RealizationOver == pc \in {"execute", "prerun", "body", "shutdown-shared-resources", "return", "done"}
ExecuteOver == pc \in {"shutdown-shared-resources", "return", "done"}
ErrorOutcomes == {"unknown-command", "flag-error", "args-error"}

\* C1: realization attaches to the root exactly the nodes of the builders
\* that do not return nil, among the builders registered when realization
\* begins, in registration order, each once; a builder that returns nil
\* contributes nothing.  The same holds of every prefix while the loop runs.
\* Those builders are the registry as Run found it: what is appended later
\* comes from a customize callback calling RegisterCommand.  The children
\* keep that order until the bash completion body, whose renderer sorts the
\* root's children by name; the nodes stay the same.
ChildrenResorted ==
  matched = completionCmd /\ Has(trace, "body") /\ cmdArgs = <<"bash">>
NameSet(seq) == {seq[i].name : i \in DOMAIN seq}

C1_RealizeNonSkipped ==
  /\ pc \in {"loop", "attach"} =>
       NameSeq(Realized) = NameSeq(SelectSeq(SubSeq(rangeFuncs, 1, idx - 1), NotSkip))
  /\ pc \in {"loop", "attach"} \/ RealizationOver =>
       /\ Len(rangeFuncs) <= Len(commandFuncs)
       /\ rangeFuncs = SubSeq(commandFuncs, 1, Len(rangeFuncs))
       /\ \A i \in DOMAIN commandFuncs :
            i > Len(rangeFuncs) => commandFuncs[i] = Closure(NestedRequest)
  /\ (RealizationOver /\ ~ChildrenResorted) =>
       NameSeq(Realized) = NameSeq(SelectSeq(rangeFuncs, NotSkip))
  /\ RealizationOver =>
       /\ Len(Realized) = Len(SelectSeq(rangeFuncs, NotSkip))
       /\ NameSet(Realized) = NameSet(SelectSeq(rangeFuncs, NotSkip))
       /\ \A i \in DOMAIN Realized : Realized[i] # NilCmd
       /\ \A i, j \in DOMAIN Realized : Realized[i].name = Realized[j].name => i = j

C1_Witness ==
  /\ pc = "done"
  /\ Len(rangeFuncs) >= 2
  /\ rangeFuncs[1].kind = "skip"
  /\ rangeFuncs[2].kind # "skip"
  /\ NameSeq(Realized) = <<rangeFuncs[2].name>>

RECURSIVE SumCalls(_)
SumCalls(cs) ==
  IF cs = {} THEN 0
  ELSE LET c == CHOOSE x \in cs : TRUE IN ncalls[c] + SumCalls(cs \ {c})

\* The registry's entries that caller c's calls appended.
EntriesOf(c) ==
  LET Own(b) == \E i \in 1..MaxCalls : b.name = CallName(c, i)
  IN SelectSeq(commandFuncs, Own)
FirstCalls(c, k) == [i \in 1..k |-> Closure(Request(c, i))]
Quiescent == \A c \in Callers : regPc[c] = "idle" /\ made[c] = ncalls[c]

\* C2: under every interleaving of the callers, once all calls have returned
\* the registry holds exactly one entry per call, and each caller's entries
\* stand in that caller's call order; meanwhile each caller's entries are
\* the calls it has completed (and the one it is about to unlock after).
C2_NoLostRegistration ==
  /\ Quiescent =>
       /\ Len(commandFuncs) = SumCalls(Callers)
       /\ \A c \in Callers : EntriesOf(c) = FirstCalls(c, ncalls[c])
  /\ \A c \in Callers :
       EntriesOf(c) = FirstCalls(c, made[c] + (IF regPc[c] = "unlock" THEN 1 ELSE 0))

C2_Witness ==
  /\ Quiescent
  /\ \A c \in Callers : ncalls[c] = MaxCalls
  /\ Len(commandFuncs) = NumCallers * MaxCalls
  /\ commandFuncs[1].name = CallName(2, 1)
  /\ commandFuncs[2].name = CallName(1, 1)
  /\ commandFuncs[3].name = CallName(2, 2)

\* C3: Run returns once; it returns 0 exactly when Execute reported no error
\* and 127 for every kind of error of Execute; it returns nothing else.
C3_ExitCode ==
  /\ \A i \in DOMAIN returns : returns[i] \in {0, 127}
  /\ Len(returns) <= 1
  /\ pc = "done" =>
       /\ Len(returns) = 1
       /\ returns[1] = 0 <=> outcome \notin ErrorOutcomes
       /\ outcome \in ErrorOutcomes => returns[1] = 127
       /\ err <=> outcome \in ErrorOutcomes

C3_Witness ==
  /\ pc = "done"
  /\ outcome = "unknown-command"
  /\ returns = <<127>>

\* C4: the API client is released exactly once on every path of Run, after
\* Execute has finished and before Run returns, never before or during
\* execution.
C4_ClientReleasedOnce ==
  /\ apiClient.closed <= 1
  /\ pc \in {"return", "done"} => apiClient.closed = 1
  /\ returns # <<>> => apiClient.closed = 1
  /\ apiClient.closed = 1 =>
       /\ pc \in {"return", "done"}
       /\ Has(trace, "execute")
       /\ outcome = "run" => Has(trace, "body")

C4_Witness ==
  /\ pc = "done"
  /\ err
  /\ apiClient.closed = 1
  /\ returns = <<127>>

\* C5: every registered builder is invoked exactly once, in registration
\* order, during tree assembly, and none before the shared configuration
\* exists.
C5_EveryBuilderInvokedOnce ==
  /\ \A i \in DOMAIN invoked : invoked[i].cfg
  /\ RealizationOver => NameSeq(invoked) = NameSeq(commandFuncs)

\* The part of C5 that holds: the builders registered when realization begins
\* are each invoked once, in order, after the configuration exists.
BuildersAtRangeStartInvokedOnce ==
  /\ \A i \in DOMAIN invoked : invoked[i].cfg
  /\ RealizationOver => NameSeq(invoked) = NameSeq(rangeFuncs)

LifecycleSteps == {Lifecycle[i] : i \in DOMAIN Lifecycle}
IsLifecycleStep(t) == t \in LifecycleSteps
StepsTaken == SelectSeq(trace, IsLifecycleStep)

\* C6: Run takes its lifecycle steps in the one order configure-output,
\* build-root-and-fixed-nodes, set-global-flags, canonicalize-environment,
\* construct-shared-config, realize-deferred-registry, execute,
\* shutdown-shared-resources, return, none skipped or repeated; the shared
\* configuration is built from the canonicalized environment, and output is
\* redirected before anything else happens.
C6_LifecycleOrder ==
  /\ Len(StepsTaken) <= Len(Lifecycle)
  /\ StepsTaken = SubSeq(Lifecycle, 1, Len(StepsTaken))
  /\ pc = "done" => StepsTaken = Lifecycle
  /\ cfg.exists => envCanonical /\ cfg.envCanonical
  /\ trace # <<>> => logOutput = "ErrorWriter"
  /\ root.exists \/ envCanonical \/ cfg.exists => logOutput = "ErrorWriter"

C6_Witness ==
  /\ pc = "done"
  /\ StepsTaken = Lifecycle
  /\ Len(rangeFuncs) >= 1

LogBase == Join(LocalLogDir, "http")
LogFiles == {Join(LogBase, LogFileName(t)) : t \in Times}
ToggleSet == Len(environ) >= 1
HookRan == Has(trace, "hook")
BodyReached == pc = "body" \/ Has(trace, "body")
IsSubcommand(n) == n # RootNode /\ n # NilCmd

\* C7 as stated: with the toggle set and directory and file creation
\* succeeding, invoking any subcommand creates exactly one http-<seconds>.log
\* under <local log dir>/http and the API client has the log sink attached
\* before the subcommand's body runs.
C7_AnySubcommandLogs ==
  (BodyReached /\ IsSubcommand(matched) /\ ToggleSet /\ fsOk.mkdir /\ fsOk.create) =>
     /\ Cardinality(files) = 1
     /\ files \subseteq LogFiles
     /\ apiClient.stats \in files

\* C7 amended: that holds of every subcommand whose node still carries the
\* diagnostics hook (built by NewCommand, PreRun left in place), the sink
\* being attached by the hook before the body; a node without the hook (the
\* completion and help nodes, a node whose callback cleared PreRun) creates
\* nothing and attaches nothing.
C7_HookedSubcommandLogs ==
  /\ (BodyReached /\ matched.preRun = "setupHTTPLogger" /\ ToggleSet
        /\ fsOk.mkdir /\ fsOk.create) =>
       /\ IsSubcommand(matched)
       /\ HookRan
       /\ Cardinality(files) = 1
       /\ files \subseteq LogFiles
       /\ apiClient.stats \in files
       /\ dirs = {LogBase}
  /\ (BodyReached /\ matched.preRun # "setupHTTPLogger") =>
       /\ ~HookRan
       /\ files = {}
       /\ apiClient.stats = NoFile
  /\ pc = "prerun" => files = {} /\ apiClient.stats = NoFile

C7_Witness ==
  /\ pc = "body"
  /\ matched.preRun = "setupHTTPLogger"
  /\ ToggleSet
  /\ Cardinality(files) = 1
  /\ apiClient.stats \in files
  /\ ~Has(trace, "body")

\* C8: with the toggle unset or empty the hook does nothing: no directory, no
\* file, no file-system call, no warning, no log sink.
C8_ToggleOffNoEffect ==
  ~ToggleSet =>
     /\ dirs = {}
     /\ files = {}
     /\ fsCalls = <<>>
     /\ ~Has(stderr, HTTPStatsWarning)
     /\ apiClient.stats = NoFile

C8_Witness ==
  /\ HookRan
  /\ ~ToggleSet
  /\ pc = "done"
  /\ IsSubcommand(matched)

HookFailed == HookRan /\ ToggleSet /\ (~fsOk.mkdir \/ ~fsOk.create)
IsWarning(line) == line = HTTPStatsWarning
IsCreateCall(call) == call[1] = "Create"

\* C9: when the toggle is set and creating the directory or the file fails,
\* the hook prints one warning, attaches no sink and returns; the body still
\* runs and Run returns what it returns without the failure (0); after a
\* failed directory creation no file creation is attempted.
C9_SoftFailure ==
  HookFailed =>
     /\ Len(SelectSeq(stderr, IsWarning)) = 1
     /\ apiClient.stats = NoFile
     /\ files = {}
     /\ ~fsOk.mkdir => SelectSeq(fsCalls, IsCreateCall) = <<>> /\ dirs = {}
     /\ BodyReached
     /\ ~err
     /\ pc = "done" => Has(trace, "body") /\ returns = <<0>>

C9_Witness ==
  /\ HookFailed
  /\ ~fsOk.mkdir
  /\ pc = "done"
  /\ returns = <<0>>

ValidCompletionArgs(args) == Len(args) = 1 /\ args[1] \in ValidArgs
CompletionMatched == matched = completionCmd
NoScriptWritten == \A i \in DOMAIN stdout : ~IsScriptLine(stdout[i])

\* C10 as stated: a completion command line whose arguments are not exactly
\* one of bash, zsh, fish, powershell is rejected by validation: the body
\* never runs, no completion script is written, Run returns 127.
C10_InvalidShellRejected ==
  (CompletionMatched /\ ~ValidCompletionArgs(cmdArgs)) =>
     /\ outcome # "run"
     /\ ~BodyReached
     /\ NoScriptWritten
     /\ pc = "done" => returns = <<127>>

\* The line carries the help flag and no flag the completion node lacks.
HelpAsked == FlagsOf(argv) = {"--help"}

\* C10 amended: a completion command line whose arguments are not exactly
\* one of bash, zsh, fish, powershell (another argument, none, or more than
\* one) never runs the body and writes no completion script.  Run returns
\* 127: a line without flags is rejected by argument validation, a line
\* with a flag the node does not define by flag parsing.  The one exception
\* is a line with the help flag and no undefined flag: Execute prints the
\* help text instead of validating and Run returns 0.  The body runs
\* exactly for one valid argument and no flag.
C10_InvalidShellRejectedUnlessHelp ==
  /\ (CompletionMatched /\ ~ValidCompletionArgs(cmdArgs)) =>
       /\ outcome # "run"
       /\ ~BodyReached
       /\ NoScriptWritten
       /\ outcome = IF FlagsOf(argv) = {} THEN "args-error"
                    ELSE IF HelpAsked THEN "help"
                    ELSE "flag-error"
       /\ pc = "done" => returns = <<IF HelpAsked THEN 0 ELSE 127>>
  /\ (CompletionMatched /\ outcome = "run") =>
       ValidCompletionArgs(cmdArgs) /\ FlagsOf(argv) = {}
  /\ (CompletionMatched /\ ValidCompletionArgs(cmdArgs) /\ FlagsOf(argv) = {}) =>
       outcome = "run"

C10_Witness ==
  /\ CompletionMatched
  /\ cmdArgs = <<"bash", "zsh">>
  /\ FlagsOf(argv) = {}
  /\ pc = "done"
  /\ returns = <<127>>
  /\ ~Has(trace, "body")

HasTrailer(line) == Has(line, BashTrailer)

\* C11: when the completion renderer returns an error, Execute reports the
\* failure (Run returns 127), and for bash the trailer line is not written.
C11_RendererErrorPropagated ==
  renderErr =>
    /\ err
    /\ pc = "done" => returns = <<127>>
    /\ cmdArgs = <<"bash">> => \A i \in DOMAIN stdout : ~HasTrailer(stdout[i])

Count(s, t) == Cardinality({i \in DOMAIN s : s[i] = t})
FirstIndex(s, t) == CHOOSE i \in DOMAIN s : s[i] = t /\ \A j \in 1..(i - 1) : s[j] # t
\* cobra's zsh script holds the requestComp assignment once.
NativeZshShape(s) == Count(s, OldRequestComp) = 1

\* C12: the zsh post-processing substitutes the first occurrence of the
\* original assignment, and nothing else: every other token of the script
\* is unchanged and a script without the assignment is unchanged.  For a
\* script of the native renderer, which holds the assignment once, the
\* output holds the rewritten assignment and not the original one.
C12_ZshRewritesFirstOnly ==
  /\ NativeZshShape(NativeScript("zsh"))
  /\ (pure.op = "zsh" /\ pure.done) =>
       LET s == pure.script
           o == pure.out
       IN /\ Len(o) = Len(s)
          /\ Count(s, OldRequestComp) = 0 => o = s
          /\ Count(s, OldRequestComp) > 0 =>
               LET k == FirstIndex(s, OldRequestComp)
               IN /\ o[k] = NewRequestComp
                  /\ \A i \in DOMAIN s : i # k => o[i] = s[i]
          /\ NativeZshShape(s) => Has(o, NewRequestComp) /\ ~Has(o, OldRequestComp)

C12_Witness ==
  /\ pure.op = "zsh"
  /\ pure.done
  /\ pure.script = NativeScript("zsh")
  /\ pure.out = <<"#compdef", NewRequestComp, "eval">>

\* o is text without its leading and trailing white space.
IsTrimOf(o, text) ==
  \E i \in 1..(Len(text) + 1), j \in 0..Len(text) :
    /\ o = SubSeq(text, i, j)
    /\ \A k \in 1..(i - 1) : IsSpace(text[k])
    /\ \A k \in (j + 1)..Len(text) : IsSpace(text[k])
    /\ o # <<>> => ~IsSpace(o[1]) /\ ~IsSpace(o[Len(o)])

\* C13: printHelp, for every command name, treats "--help" as "git-lfs";
\* prints the mapping's text without its surrounding white space when the
\* name is a key of the man-page mapping; prints the "no usage text found"
\* message with the requested name otherwise; and leaves the mapping as it
\* was.
C13_HelpResolver ==
  /\ manPages = ManPages
  /\ (pure.op = "printHelp" /\ pure.done) =>
       LET key == IF pure.name = "--help" THEN "git-lfs" ELSE pure.name
       IN /\ key \in DOMAIN ManPages => IsTrimOf(pure.out, ManPages[key])
          /\ key \notin DOMAIN ManPages =>
               pure.out = <<"Sorry, no usage text found for", pure.name>>

C13_Witness ==
  /\ pure.op = "printHelp"
  /\ pure.done
  /\ pure.name = "--help"
  /\ pure.out = <<"man", " ", "git-lfs">>
  /\ manPages = ManPages

Aliases == {"config", "faq"}
\* The command line is help, or help and one topic, without flags.
HelpLine == argv # <<>> /\ argv[1] = "help" /\ FlagsOf(argv) = {}
HelpBodyRan == matched = helpcmd /\ Has(trace, "body")

\* C14: help with no topic, with a topic that names a registered command,
\* with an alias topic and with an unknown topic each reach the help node's
\* body, and whenever that body has run Execute reports no error and Run
\* returns 0.
C14_HelpExitsZero ==
  /\ HelpLine =>
       /\ matched = helpcmd
       /\ outcome = "run"
       /\ ExecuteOver => HelpBodyRan
  /\ HelpBodyRan =>
       /\ ~err
       /\ pc = "done" => returns = <<0>>

C14_Witness ==
  /\ argv = <<"help", "cobol">>
  /\ HelpBodyRan
  /\ Has(stderr, <<"Unknown help topic", <<"cobol">>>>)
  /\ pc = "done"
  /\ returns = <<0>>

\* The usage summary of the root: the text of "git-lfs", trimmed.
RootUsage == <<"man", " ", "git-lfs">>
\* The command line names no subcommand and carries at most the version flag.
RootLine == outcome # "none" /\ StripFlags(argv) = <<>> /\ FlagsOf(argv) \subseteq {"--version"}
RootBodyRan == matched = RootNode /\ Has(trace, "body")

\* C15: a command line without subcommand, with or without the version
\* flag, runs the root's body; the body always prints the version line, and
\* prints the usage summary after it exactly when the version flag was not
\* given.
C15_RootPrintsVersion ==
  /\ RootLine =>
       /\ matched = RootNode
       /\ outcome = "run"
       /\ ExecuteOver => RootBodyRan
  /\ RootBodyRan =>
       /\ rootVersion <=> "--version" \in FlagsOf(argv)
       /\ stdout = IF "--version" \in FlagsOf(argv)
                     THEN <<VersionLine>>
                     ELSE <<VersionLine, RootUsage>>

C15_Witness ==
  /\ argv = <<"--version">>
  /\ RootBodyRan
  /\ stdout = <<VersionLine>>
  /\ pc = "done"

\* A builder of the range registered a further builder from its callback.
NestedRegistered == \E i \in DOMAIN rangeFuncs : i < idx /\ rangeFuncs[i].kind = "nest"
\* The nested registration was refused: the registry does not hold it.
NestedRejected == ~Has(NameSeq(commandFuncs), NestedRequest.name)
NestedRealized == Has(NameSeq(Realized), NestedRequest.name)

\* C16: when a builder registers a further builder during realization, then
\* by the end of realization the new builder's node is in the tree, or the
\* nested registration was rejected.
C16_NestedNotDropped ==
  (RealizationOver /\ NestedRegistered) => (NestedRealized \/ NestedRejected)

HasCallback(b) == b.kind \in {"nohook", "nest"}
\* The builders of the range that have been called so far.
BuildersCalled ==
  SubSeq(rangeFuncs, 1,
         IF idx = 0 THEN 0
         ELSE IF pc = "loop" THEN idx - 1
         ELSE IF pc = "attach" THEN idx
         ELSE Len(rangeFuncs))
\* A node as NewCommand makes it, with the diagnostics hook.
FreshNode(name) ==
  [name |-> name, preRun |-> "setupHTTPLogger", body |-> "runFn", args |-> "nil"]

\* C17: registration is deferred: before realization begins no builder has
\* been called, no callback has been called, no node has been attached and
\* no body has run, whatever is registered, and a registration made during
\* realization calls nothing either.  During realization the callbacks
\* called are those of the builders called so far that have one, once each
\* and in order, each with a node that carries the diagnostics hook and is
\* not yet attached; a builder without callback gets its node attached as
\* NewCommand made it, and realization reports no error.
C17_DeferredRegistration ==
  /\ idx = 0 =>
       /\ invoked = <<>>
       /\ fnCalls = <<>>
       /\ Realized = <<>>
  /\ ~RealizationOver => ~Has(trace, "body")
  /\ ~Has(NameSeq(invoked), NestedRequest.name)
  /\ ~Has(NameSeq(fnCalls), NestedRequest.name)
  /\ NameSeq(fnCalls) = NameSeq(SelectSeq(BuildersCalled, HasCallback))
  /\ \A i \in DOMAIN fnCalls :
       /\ fnCalls[i].preRun = "setupHTTPLogger"
       /\ ~fnCalls[i].attached
  /\ RealizationOver =>
       /\ \A i \in DOMAIN fnCalls : Has(NameSeq(Realized), fnCalls[i].name)
       /\ \A i \in DOMAIN rangeFuncs :
            rangeFuncs[i].kind = "nil" => Has(Realized, FreshNode(rangeFuncs[i].name))
  /\ pc = "execute" => ~err /\ stderr = <<>>

C17_Witness ==
  /\ pc = "execute"
  /\ Len(rangeFuncs) = 2
  /\ rangeFuncs[1].kind = "nest"
  /\ rangeFuncs[2].kind = "nil"
  /\ NameSeq(fnCalls) = <<rangeFuncs[1].name>>
  /\ Len(Realized) = 2
  /\ Has(NameSeq(commandFuncs), NestedRequest.name)

\* The help body ran with a topic that names no child of the root.
HelpLookupFailed ==
  HelpBodyRan /\ cmdArgs # <<>> /\ ~Has(NameSeq(root.commands), cmdArgs[1])
UnknownTopicLine == <<"Unknown help topic", cmdArgs>>

\* C18: in the help subcommand, when the topic names no node of the tree
\* and is config or faq, printHelp is called with the topic itself and the
\* text of that topic is what is printed; when the topic names no node and
\* is anything else, "Unknown help topic" and the root usage are printed and
\* printHelp is not called with the topic.
C18_HelpAliases ==
  HelpLookupFailed =>
    IF cmdArgs[1] \in Aliases
      THEN /\ helpCalls = <<cmdArgs[1]>>
           /\ stdout = <<<<"man", cmdArgs[1]>>>>
           /\ ~Has(stderr, UnknownTopicLine)
      ELSE /\ Has(stderr, UnknownTopicLine)
           /\ stdout = <<RootUsage>>
           /\ helpCalls = <<"git-lfs">>
           /\ ~Has(helpCalls, cmdArgs[1])

C18_Witness ==
  /\ argv = <<"help", "faq">>
  /\ HelpLookupFailed
  /\ helpCalls = <<"faq">>
  /\ stdout = <<<<"man", "faq">>>>
  /\ pc = "done"

Positions(seq, x) == {i \in DOMAIN seq : seq[i] = x}

\* C19: in a Run the diagnostics hook runs at most once, only as the PreRun
\* of the node Execute matched, and before that node's body: no body of a
\* node that carries the hook runs without it, and no hook follows a body.
\* When the root's own body is what runs, the hook has not run and has
\* touched no file, whatever the value of GIT_LOG_STATS.
C19_HookOncePerRun ==
  /\ Cardinality(Positions(trace, "hook")) <= 1
  /\ Cardinality(Positions(trace, "body")) <= 1
  /\ HookRan =>
       /\ outcome = "run"
       /\ IsSubcommand(matched)
       /\ matched.preRun = "setupHTTPLogger"
  /\ \A h \in Positions(trace, "hook"), b \in Positions(trace, "body") : h < b
  /\ (Has(trace, "body") /\ matched.preRun = "setupHTTPLogger") => HookRan
  /\ RootBodyRan =>
       /\ ~HookRan
       /\ fsCalls = <<>>
       /\ dirs = {} /\ files = {}
       /\ apiClient.stats = NoFile

C19_Witness ==
  /\ RootBodyRan
  /\ environ = "1"
  /\ ~HookRan
  /\ files = {}
  /\ pc = "done"

InRegisterCommand == regPc[Main] \in {"read", "write", "unlock"}
LockDiscipline ==
  /\ commandMu => InRegisterCommand
  /\ pc = "loop" => ~commandMu /\ regPc[Main] = "idle"
  /\ regPc[Main] = "lock" => ~commandMu

\* C20: the registry lock is held only inside RegisterCommand, between its
\* Lock and its Unlock around the append; it is free whenever Run calls a
\* builder and whenever a callback enters RegisterCommand, so the nested
\* call never waits; and every Run reaches the execute step.
C20_RealizationTerminates == [](LockDiscipline) /\ <>(RealizationOver)

C20_Witness ==
  /\ pc = "execute"
  /\ Len(rangeFuncs) = 2
  /\ \A i \in DOMAIN rangeFuncs : rangeFuncs[i].kind = "nest"
  /\ Count(NameSeq(commandFuncs), NestedRequest.name) = 2
  /\ ~commandMu

====
